---- MODULE Spec2Model ----
(***************************************************************************)
(* Outbound mail dispatch of isomer-mail: MailTransmitter.send_mail, the   *)
(* worker task send_mail_worker run by a two-thread circuits Worker, and   *)
(* the task_success handler.                                               *)
(*                                                                         *)
(* A Python dict is a TLA+ record whose DOMAIN is the set of keys present; *)
(* d['k'] on a missing key is a KeyError.  Strings that the code takes     *)
(* apart (the from template, the sendmail argument string) are sequences:  *)
(* a template is a sequence of literal and {{tag}} tokens, an argument     *)
(* string is a sequence of one-character strings.                          *)
(***************************************************************************)
EXTENDS Integers, Sequences, FiniteSets, Bags, TLC

VARIABLES
    config,         \* self.config: mail_send, default_account, accounts
    reconfs,        \* number of configuration edits so far
    events,         \* every send_mail event fired so far, in firing order
    calls,          \* how each handled send_mail call ended (i-th call handles events[i])
    procs,          \* the run_process invocations made, in order
    pool,           \* tasks submitted to "mail-transmit-workers", waiting for a thread
    worker,         \* per pool thread: the send_mail_worker invocation it runs
    completions,    \* task_success events fired by the Worker, not yet handled
    failures,       \* task_failure events fired by the Worker (no handler is registered)
    faults,         \* what the network did: the smtplib calls that raised, per event
    handled,        \* bag of the results task_success has been called with
    log             \* bag of handler outputs: the lines one handler call logged

vars == <<config, reconfs, events, calls, procs, pool, worker, completions,
          failures, faults, handled, log>>

-----------------------------------------------------------------------------
(* Bounds of the model *)

MaxEvents == 2

MaxReconfs == 1

MaxPoolEvents == 3

(* mutant: a pool one worker wider *)
Workers_wider == 2 + 1

(* Worker(process=False, workers=2, ...) *)
Workers == 2

-----------------------------------------------------------------------------
(* Configuration data *)

hostname == "isomerhost"

(* configprops['accounts']['default'][0]: only these five keys are present *)
DefaultAccount ==
    [name |-> "localhost", server |-> "localhost", port |-> 25, ssl |-> FALSE,
     mail_from |-> <<"bot@", "{{server}}">>]

(* An SMTP account with every schema field filled in: STARTTLS and a login *)
SmtpAccount ==
    [name |-> "smtp", server |-> "mail.example.org", port |-> 587, ssl |-> FALSE,
     tls |-> TRUE, protocol |-> "smtp",
     mail_from |-> <<"{{hostname}}", "@", "{{server}}", "{{nick}}">>,
     username |-> "user", password |-> "secret", use_sendmail |-> FALSE,
     sendmail_extra_arguments |-> <<"-", "t", " ", "-", "o", "i">>,
     sendmail_binary |-> "/usr/bin/sendmail"]

(* An anonymous SMTP-over-SSL account: schema defaults for ssl, tls, username *)
AnonAccount ==
    [name |-> "anon", server |-> "localhost", port |-> 465, ssl |-> TRUE,
     tls |-> FALSE, protocol |-> "smtp", mail_from |-> <<"bot@", "{{server}}">>,
     username |-> "", password |-> "", use_sendmail |-> FALSE,
     sendmail_extra_arguments |-> <<"-", "t", " ", "-", "o", "i">>,
     sendmail_binary |-> "/usr/bin/sendmail"]

(* An account delivering through a local sendmail-like command *)
RelayAccount ==
    [name |-> "relay", server |-> "localhost", port |-> 465, ssl |-> TRUE,
     tls |-> FALSE, protocol |-> "smtp", mail_from |-> <<"bot@", "{{hostname}}">>,
     username |-> "", password |-> "", use_sendmail |-> TRUE,
     sendmail_extra_arguments |-> <<"-", "t", " ", " ", "-", "o", "i", " ">>,
     sendmail_binary |-> "/usr/bin/msmtp"]

(* A second entry named "smtp": the array schema does not forbid duplicates *)
ShadowAccount ==
    [SmtpAccount EXCEPT !.server = "other.example.org", !.use_sendmail = TRUE]

Registries ==
    { <<DefaultAccount>>,
      <<SmtpAccount, RelayAccount, AnonAccount, ShadowAccount>> }

DefaultConfig ==
    [mail_send |-> TRUE, default_account |-> "localhost",
     accounts |-> <<DefaultAccount>>]

Configs ==
    [mail_send : BOOLEAN, default_account : {"localhost", "anon", "relay"},
     accounts : Registries]

(* send_mail('root@localhost', 'Testmail', ...): the account defaults to 'default' *)
TestMail ==
    [to_address |-> "root@localhost", subject |-> "Testmail",
     text |-> "Hello dear test mail receiver!", account |-> "default"]

(* The other send_mail events fired in the model name the account "smtp", *)
(* which the default registry does not hold                               *)
Selectors == {"smtp"}

SendMailEvents ==
    [to_address : {"alice@example.org"}, subject : {"Hi"}, text : {"Body"},
     account : Selectors]

-----------------------------------------------------------------------------
(* Pure parts of send_mail *)

(* mutant: the selector is always used verbatim *)
account_name_verbatim(event, cfg) == event.account

(* account selection: 'default' stands for config.default_account *)
account_name(event, cfg) ==
    IF event.account = "default" THEN cfg.default_account ELSE event.account

(* mutant: an unknown name falls back to the whole registry *)
Matches_or_all(cfg, name) ==
    IF \E i \in 1..Len(cfg.accounts) : cfg.accounts[i].name = name
    THEN SelectSeq(cfg.accounts, LAMBDA account : account.name = name)
    ELSE cfg.accounts

(* mutant: the matching accounts in reverse order, so [0] is the last one *)
Matches_reversed(cfg, name) ==
    LET found == SelectSeq(cfg.accounts, LAMBDA account : account.name = name)
    IN  [i \in 1..Len(found) |-> found[Len(found) + 1 - i]]

(* list(filter(lambda account: account['name'] == account_name, accounts)) *)
Matches(cfg, name) ==
    SelectSeq(cfg.accounts, LAMBDA account : account.name = name)

(* mutant: a tag without a value in the context is copied to the output *)
RenderToken_passthrough(tok, context) ==
    CASE tok = "{{server}}"   -> context.server
      [] tok = "{{hostname}}" -> context.hostname
      [] OTHER                -> tok

(* pystache render of one token: a known tag gives its value, an unknown  *)
(* tag renders as the empty string, anything else is literal text         *)
RenderToken(tok, context) ==
    CASE tok = "{{server}}"   -> context.server
      [] tok = "{{hostname}}" -> context.hostname
      [] tok \in {"{{nick}}"} -> ""
      [] OTHER                -> tok

RECURSIVE render(_, _)
render(template, context) ==
    IF template = <<>> THEN ""
    ELSE RenderToken(Head(template), context) \o render(Tail(template), context)

(* mutant: the From header is rendered with the system hostname as server *)
mime_mail_hostname(event, account) ==
    [text |-> event.text, Subject |-> event.subject,
     From |-> render(account.mail_from,
                     [server |-> hostname, hostname |-> hostname]),
     To |-> event.to_address]

(* MIMEText(event.text) with the Subject, From and To headers set *)
mime_mail(event, account) ==
    [text |-> event.text, Subject |-> event.subject,
     From |-> render(account.mail_from,
                     [server |-> account.server, hostname |-> hostname]),
     To |-> event.to_address]

(* str.split(' '): cut at every single space, keeping empty pieces *)
RECURSIVE SplitFrom(_, _, _)
SplitFrom(chars, cur, acc) ==
    IF chars = <<>> THEN Append(acc, cur)
    ELSE IF Head(chars) = " " THEN SplitFrom(Tail(chars), "", Append(acc, cur))
    ELSE SplitFrom(Tail(chars), cur \o Head(chars), acc)

split(chars) == SplitFrom(chars, "", <<>>)

(* [account['sendmail_binary']] + account['sendmail_extra_arguments'].split(' ') *)
sendmail_args(account) ==
    <<account.sendmail_binary>> \o split(account.sendmail_extra_arguments)

Idle == [pc |-> "idle"]

(* self.log(...): what one call of a handler logged, in order; call is the *)
(* index of the send_mail event the handler call belongs to                *)
(* mails are the messages printed with the lines                           *)
Logged(handler, call, lines, mails) ==
    SetToBag({[by |-> handler, call |-> call, lines |-> lines, mails |-> mails]})

-----------------------------------------------------------------------------
Init ==
    /\ config = DefaultConfig
    /\ reconfs = 0
    /\ events = <<>>
    /\ calls = <<>>
    /\ procs = <<>>
    /\ pool = <<>>
    /\ worker = [w \in 1..Workers |-> Idle]
    /\ completions = <<>>
    /\ failures = {}
    /\ faults = {}
    /\ handled = EmptyBag
    /\ log = EmptyBag

(* mutant: the reload rewrites the account objects of the old registry   *)
(* in place, position by position, so a task holding one sees the new one *)
Reconfigure_in_place(cfg) ==
    LET reloaded(acc) ==
            LET at == {i \in 1..Len(config.accounts) : config.accounts[i] = acc}
            IN  IF at = {} \/ (CHOOSE i \in at : TRUE) > Len(cfg.accounts)
                THEN acc
                ELSE cfg.accounts[CHOOSE i \in at : TRUE]
    IN  /\ cfg # config
        /\ config' = cfg
        /\ reconfs' = reconfs + 1
        /\ pool' = [i \in 1..Len(pool) |->
                        [pool[i] EXCEPT !.config = reloaded(pool[i].config)]]
        /\ worker' = [w \in 1..Workers |->
                        IF worker[w].pc = "idle" THEN worker[w]
                        ELSE [worker[w] EXCEPT !.config = reloaded(worker[w].config)]]
        /\ UNCHANGED <<events, calls, procs, completions, failures, faults,
                       handled, log>>

(* The configuration store replaces the component's configuration *)
Reconfigure(cfg) ==
    /\ cfg # config
    /\ config' = cfg
    /\ reconfs' = reconfs + 1
    /\ UNCHANGED <<events, calls, procs, pool, worker, completions, failures,
                   faults, handled, log>>

(* Some component fires a send_mail event; it waits in the event queue *)
FireSendMail(event) ==
    /\ events' = Append(events, event)
    /\ UNCHANGED <<config, reconfs, calls, procs, pool, worker, completions,
                   failures, faults, handled, log>>

(* handler of cli_test_mail: logs and fires the canned send_mail event *)
cli_mail_test ==
    /\ events' = Append(events, TestMail)
    /\ log' = log (+) Logged("cli_mail_test", Len(events) + 1, <<"Sending testmail">>, <<>>)
    /\ UNCHANGED <<config, reconfs, calls, procs, pool, worker, completions,
                   failures, faults, handled>>

-----------------------------------------------------------------------------
(* The dispatcher: MailTransmitter.send_mail *)

(* mutant: the toggle is not consulted *)
send_gate_ignored(cfg) == TRUE

(* self.config.mail_send is True *)
send_gate(cfg) == cfg.mail_send = TRUE

(* What run_process can do with the command: exit 0, exit non-zero (both  *)
(* returned as (result, log)), or fail to start it with an OSError        *)
ProcOutcomes == {"ok", "failed", "oserror"}

run_process(r, args, stdin, outcome) ==
    [event |-> r, args |-> args, stdin |-> stdin, outcome |-> outcome]

(* task(send_mail_worker, account, mime_mail, event) *)
task(account, mail, r) == [config |-> account, mail |-> mail, event |-> r]

(* mutant: the task is handed to a free thread, the caller waits for one *)
fireEvent_handoff(t) ==
    /\ \E w \in 1..Workers : worker[w].pc = "idle"
    /\ pool' = Append(pool, t)

(* self.fireEvent(task(...), "mail-transmit-workers"): the task joins the *)
(* pool's queue                                                            *)
fireEvent(t) == pool' = Append(pool, t)

(* How one send_mail call ended: the exception that left it ("none" when  *)
(* it returned), the account name it resolved and the mail_send toggle at *)
(* the time of the call                                                   *)
Call(raised, name) ==
    [raised |-> raised, account_name |-> name, mail_send |-> config.mail_send]

(* the branch on account['use_sendmail'], taken once the gate is open *)
deliver(r, account, mail, outcome, lines) ==
    IF "use_sendmail" \notin DOMAIN account
    THEN /\ calls' = Append(calls, Call("KeyError", account.name))
         /\ log' = log (+) Logged("send_mail", r, lines, <<mail>>)
         /\ UNCHANGED <<procs, pool>>
    ELSE IF account.use_sendmail
    THEN /\ procs' = Append(procs, run_process(r, sendmail_args(account), mail, outcome))
         /\ calls' = Append(calls,
                Call(IF outcome = "oserror" THEN "OSError" ELSE "none", account.name))
         /\ log' = log (+) Logged("send_mail", r,
                        Append(lines, "Would now task sendmail to send the mail"),
                        <<mail>>)
         /\ UNCHANGED pool
    ELSE /\ fireEvent(task(account, mail, r))
         /\ calls' = Append(calls, Call("none", account.name))
         /\ log' = log (+) Logged("send_mail", r, lines, <<mail>>)
         /\ UNCHANGED procs

(* The handler runs on the oldest send_mail event not handled yet; outcome *)
(* is what the delegated command does if this call runs one               *)
send_mail(outcome) ==
    /\ Len(calls) < Len(events)
    /\ LET r == Len(calls) + 1
           event == events[r]
           name == account_name(event, config)
           found == Matches(config, name)
       IN  IF found = <<>>
           THEN /\ calls' = Append(calls, Call("IndexError", name))
                /\ UNCHANGED <<procs, pool, log>>
           ELSE LET account == found[1]
                    mail == mime_mail(event, account)
                IN  IF send_gate(config)
                    THEN deliver(r, account, mail, outcome,
                                 <<"MimeMail:", "Sending mail to " \o event.to_address>>)
                    ELSE /\ log' = log (+) Logged("send_mail", r,
                                <<"MimeMail:",
                                  "Not sending mail, here it is for debugging info:">>,
                                <<mail>>)
                         /\ calls' = Append(calls, Call("none", name))
                         /\ UNCHANGED <<procs, pool>>
    /\ UNCHANGED <<config, reconfs, events, worker, completions, failures, faults,
                   handled>>

-----------------------------------------------------------------------------
(* The worker pool and send_mail_worker *)

(* What a blocking smtplib call can do: return, raise socket.timeout, or  *)
(* raise another exception (SMTPAuthenticationError, SMTPException, ...)  *)
StepOutcomes == {"ok", "timeout", "error"}

(* config.get('ssl', True) *)
use_ssl(cfg) == IF "ssl" \in DOMAIN cfg THEN cfg.ssl ELSE TRUE

(* log += 'Sending Mail\n', then server.send_message(mail) *)
before_send(st) ==
    [st EXCEPT !.log = Append(@, "Sending Mail"), !.pc = "send_message"]

(* the branch on config['username'] *)
before_login(st) ==
    IF "username" \notin DOMAIN st.config THEN [st EXCEPT !.pc = "KeyError"]
    ELSE IF st.config.username # ""
    THEN [st EXCEPT !.log = Append(@, "Logging in with " \o st.config.username),
                    !.pc = "login"]
    ELSE before_send([st EXCEPT !.log = Append(@, "No username, trying anonymous access")])

(* mutant: the function goes on to the login without the TLS upgrade *)
before_tls_login_first(st) == before_login(st)

(* the branch on config['tls'] *)
before_tls(st) ==
    IF "tls" \notin DOMAIN st.config THEN [st EXCEPT !.pc = "KeyError"]
    ELSE IF st.config.tls
    THEN [st EXCEPT !.log = Append(@, "Starting TLS"), !.pc = "starttls"]
    ELSE before_login(st)

(* mutant: the returned event is the one of another running session,     *)
(* when there is one                                                      *)
Return_swapped(w, success, lines) ==
    LET others == {v \in 1..Workers : v # w /\ worker[v].pc # "idle"}
        ev == IF others = {} THEN worker[w].event
              ELSE worker[CHOOSE v \in others : TRUE].event
    IN  /\ completions' = Append(completions,
                [success |-> success, log |-> lines, event |-> ev])
        /\ worker' = [worker EXCEPT ![w] = Idle]
        /\ UNCHANGED failures

(* the function returns: circuits fires task_success with the returned value *)
Return(w, success, lines) ==
    /\ completions' = Append(completions,
            [success |-> success, log |-> lines, event |-> worker[w].event])
    /\ worker' = [worker EXCEPT ![w] = Idle]
    /\ UNCHANGED failures

(* an exception leaves the function: circuits fires task_failure *)
Raise(w, error) ==
    /\ failures' = failures \cup {[event |-> worker[w].event, error |-> error]}
    /\ worker' = [worker EXCEPT ![w] = Idle]
    /\ UNCHANGED completions

(* mutant: no except clause, the timeout leaves the function *)
on_timeout_uncaught(w) == Raise(w, "timeout")

(* except timeout as e: log += 'Could not send email: ' + str(e) *)
on_timeout(w) ==
    Return(w, FALSE, Append(worker[w].log, "Could not send email: timed out"))

(* the blocking call of the current step ended with outcome o; st is the  *)
(* state the function goes on to when the call returned normally          *)
Continue(w, o, error, st) ==
    /\ faults' = IF o = "ok" THEN faults
                 ELSE faults \cup {[event |-> worker[w].event, step |-> worker[w].pc,
                                    outcome |-> o]}
    /\ CASE o = "timeout" -> on_timeout(w)
         [] o = "error"   -> Raise(w, error)
         [] OTHER ->
               IF st.pc = "KeyError" THEN Raise(w, "KeyError")
               ELSE IF st.pc = "return" THEN Return(w, TRUE, st.log)
               ELSE /\ worker' = [worker EXCEPT ![w] = st]
                    /\ UNCHANGED <<completions, failures>>

(* a free pool thread takes the oldest waiting task and calls the function, *)
(* which opens SMTP_SSL(...) or SMTP(...)                                   *)
WorkerStart(w) ==
    /\ worker[w].pc = "idle"
    /\ pool # <<>>
    /\ worker' = [worker EXCEPT ![w] =
            [pc |-> "connect", config |-> Head(pool).config, mail |-> Head(pool).mail,
             event |-> Head(pool).event, log |-> <<>>,
             steps |-> <<IF use_ssl(Head(pool).config) THEN "SMTP_SSL" ELSE "SMTP">>]]
    /\ pool' = Tail(pool)
    /\ UNCHANGED <<config, reconfs, events, calls, procs, completions, failures,
                   faults, handled, log>>

connect(w, o) ==
    /\ worker[w].pc = "connect"
    /\ Continue(w, o, "SMTPConnectError", before_tls(worker[w]))
    /\ UNCHANGED <<config, reconfs, events, calls, procs, pool, handled, log>>

starttls(w, o) ==
    /\ worker[w].pc = "starttls"
    /\ Continue(w, o, "SMTPException",
                before_login([worker[w] EXCEPT !.steps = Append(@, "starttls")]))
    /\ UNCHANGED <<config, reconfs, events, calls, procs, pool, handled, log>>

login(w, o) ==
    /\ worker[w].pc = "login"
    /\ Continue(w, o, "SMTPAuthenticationError",
                before_send([worker[w] EXCEPT !.steps = Append(@, "login")]))
    /\ UNCHANGED <<config, reconfs, events, calls, procs, pool, handled, log>>

send_message(w, o) ==
    /\ worker[w].pc = "send_message"
    /\ Continue(w, o, "SMTPRecipientsRefused",
                [worker[w] EXCEPT !.steps = Append(@, "send_message"), !.pc = "quit"])
    /\ UNCHANGED <<config, reconfs, events, calls, procs, pool, handled, log>>

(* mutant: a timeout of quit is swallowed, the function returns success *)
quit_timeout_swallowed(w, o) ==
    /\ worker[w].pc = "quit"
    /\ IF o = "timeout"
       THEN /\ faults' = faults \cup {[event |-> worker[w].event, step |-> "quit",
                                        outcome |-> o]}
            /\ Return(w, TRUE, Append(worker[w].log, "Server response:{}"))
       ELSE Continue(w, o, "SMTPServerDisconnected",
                     [worker[w] EXCEPT !.steps = Append(@, "quit"),
                                       !.log = Append(@, "Server response:{}"),
                                       !.pc = "return"])
    /\ UNCHANGED <<config, reconfs, events, calls, procs, pool, handled, log>>

(* server.quit(), then log += 'Server response:' + str(response_send) *)
quit(w, o) ==
    /\ worker[w].pc = "quit"
    /\ Continue(w, o, "SMTPServerDisconnected",
                [worker[w] EXCEPT !.steps = Append(@, "quit"),
                                  !.log = Append(@, "Server response:{}"),
                                  !.pc = "return"])
    /\ UNCHANGED <<config, reconfs, events, calls, procs, pool, handled, log>>

send_mail_worker(w, o) ==
    \/ connect(w, o)
    \/ starttls(w, o)
    \/ login(w, o)
    \/ send_message(w, o)
    \/ quit(w, o)

-----------------------------------------------------------------------------
(* The result reporter: MailTransmitter.task_success *)

(* mutant: a failed send is submitted to the pool again *)
task_success_retry ==
    /\ completions # <<>>
    /\ LET result == Head(completions)
       IN  /\ handled' = handled (+) SetToBag({result})
           /\ log' = log (+) Logged("task_success", result.event, <<>>, <<>>)
           /\ pool' = IF result.success = TRUE THEN pool
                      ELSE Append(pool, task(config.accounts[1],
                                             mime_mail(events[result.event],
                                                       config.accounts[1]),
                                             result.event))
    /\ completions' = Tail(completions)
    /\ UNCHANGED <<config, reconfs, events, calls, procs, worker, failures, faults>>

task_success ==
    /\ completions # <<>>
    /\ LET result == Head(completions)
       IN  /\ handled' = handled (+) SetToBag({result})
           /\ log' = log (+)
                  IF result.success = TRUE
                  THEN Logged("task_success", result.event, <<"Sent mail successfully.">>, <<>>)
                  ELSE Logged("task_success", result.event,
                              <<"Sending mail failed:">> \o result.log, <<>>)
    /\ completions' = Tail(completions)
    /\ UNCHANGED <<config, reconfs, events, calls, procs, pool, worker, failures,
                   faults>>

-----------------------------------------------------------------------------
Next ==
    \/ \E cfg \in Configs : reconfs < MaxReconfs /\ Reconfigure(cfg)
    \/ \E event \in SendMailEvents : Len(events) < MaxEvents /\ FireSendMail(event)
    \/ Len(events) < MaxEvents /\ cli_mail_test
    \/ \E outcome \in ProcOutcomes : send_mail(outcome)
    \/ \E w \in 1..Workers : WorkerStart(w)
    \/ \E w \in 1..Workers, o \in StepOutcomes : send_mail_worker(w, o)
    \/ task_success

Spec == Init /\ [][Next]_vars

-----------------------------------------------------------------------------
(* The same component started on a stored configuration whose accounts    *)
(* all carry every field, and left unedited: the runs in which the worker *)
(* pool fills up                                                          *)

PoolConfig ==
    [mail_send |-> TRUE, default_account |-> "anon",
     accounts |-> <<SmtpAccount, RelayAccount, AnonAccount, ShadowAccount>>]

InitPool ==
    /\ config = PoolConfig
    /\ reconfs = 0
    /\ events = <<>>
    /\ calls = <<>>
    /\ procs = <<>>
    /\ pool = <<>>
    /\ worker = [w \in 1..Workers |-> Idle]
    /\ completions = <<>>
    /\ failures = {}
    /\ faults = {}
    /\ handled = EmptyBag
    /\ log = EmptyBag

NextPool ==
    \/ \E event \in SendMailEvents : Len(events) < MaxPoolEvents /\ FireSendMail(event)
    \/ \E outcome \in ProcOutcomes : send_mail(outcome)
    \/ \E w \in 1..Workers : WorkerStart(w)
    \/ \E w \in 1..Workers, o \in StepOutcomes : send_mail_worker(w, o)
    \/ task_success

SpecPool == InitPool /\ [][NextPool]_vars

-----------------------------------------------------------------------------
(* What the properties below speak about *)

(* the events whose task was submitted to the worker pool, wherever the   *)
(* task or its result is by now                                           *)
InFlight ==
    {pool[i].event : i \in 1..Len(pool)}
        \cup {worker[w].event : w \in {v \in 1..Workers : worker[v].pc # "idle"}}
        \cup {completions[i].event : i \in 1..Len(completions)}

Submitted ==
    InFlight \cup {x.event : x \in BagToSet(handled)} \cup {f.event : f \in failures}

(* the events for which the delegated command was run *)
Delegated == {procs[i].event : i \in 1..Len(procs)}

(* the delivery outcomes produced so far *)
Outcomes ==
    {completions[i] : i \in 1..Len(completions)} \cup BagToSet(handled)

(* how many times task_success was called with an outcome of event r *)
ReportsOf(r) ==
    LET of == {x \in BagToSet(handled) : x.event = r}
    IN  BagCardinality([x \in of |-> handled[x]])

(* what the send_mail call for event r logged *)
LoggedBy(r) == {e \in BagToSet(log) : e.by = "send_mail" /\ e.call = r}

Handled == 1..Len(calls)

-----------------------------------------------------------------------------
(* C1: a send_mail call made while mail_send is false invokes no backend: *)
(* whatever the account, the delegated command is not run for it, no task *)
(* is submitted to the worker pool and no delivery outcome exists for it. *)
C1_GateClosedNoBackend ==
    \A r \in Handled :
        calls[r].mail_send = FALSE =>
            /\ r \notin Delegated
            /\ r \notin Submitted
            /\ \A x \in Outcomes : x.event # r

(* a call that resolved the delegating account "relay" while the gate was closed *)
C1_Witness ==
    \E r \in Handled :
        /\ calls[r].mail_send = FALSE
        /\ calls[r].raised = "none"
        /\ calls[r].account_name = "relay"
        /\ LoggedBy(r) # {}

(* C2: a call whose selector, after 'default' is replaced by               *)
(* default_account, names no account of the registry ends with the lookup *)
(* error (IndexError) and starts no command and submits no task.          *)
C2_UnknownAccountFails ==
    [][(Len(calls') = Len(calls) + 1 /\ Len(calls) < Len(events)) =>
        LET r == Len(calls) + 1
            name == IF events[r].account = "default" THEN config.default_account
                    ELSE events[r].account
        IN  (\A i \in 1..Len(config.accounts) : config.accounts[i].name # name) =>
                /\ calls'[r].raised = "IndexError"
                /\ procs' = procs
                /\ pool' = pool
                /\ r \notin Submitted']_vars

(* a call with the explicit selector "smtp" failed on the default registry *)
C2_Witness ==
    \E r \in Handled :
        /\ calls[r].raised = "IndexError"
        /\ events[r].account = "smtp"
        /\ r \notin Submitted
        /\ r \notin Delegated

(* C3: every request submitted to the worker pool is reported to           *)
(* task_success exactly once: never twice, and once its task is no longer *)
(* waiting, running or awaiting its handler it has been reported.         *)
C3_ReportedExactlyOnce ==
    \A r \in Submitted :
        /\ ReportsOf(r) <= 1
        /\ r \notin InFlight => ReportsOf(r) = 1

(* C4: every call that passes the send gate with an existing account      *)
(* invokes exactly one backend: the delegated command or the worker pool. *)
C4_ExactlyOneBackend ==
    \A r \in Handled :
        (calls[r].mail_send = TRUE /\ calls[r].raised # "IndexError") =>
            (r \in Delegated) # (r \in Submitted)

(* C5: when an smtplib call of the session (connect, starttls, login,     *)
(* send_message, quit) raises socket.timeout, send_mail_worker returns    *)
(* (False, log, event) with the timeout text as last log line, and no     *)
(* exception leaves the function.                                         *)
C5_TimeoutIsReturned ==
    \A f \in faults :
        f.outcome = "timeout" =>
            /\ \E x \in Outcomes :
                    /\ x.event = f.event
                    /\ x.success = FALSE
                    /\ x.log # <<>>
                    /\ x.log[Len(x.log)] = "Could not send email: timed out"
            /\ \A g \in failures : g.event # f.event

(* timeouts were raised by quit and by starttls *)
C5_Witness ==
    /\ \E f \in faults : f.outcome = "timeout" /\ f.step = "quit"
    /\ \E f \in faults : f.outcome = "timeout" /\ f.step = "starttls"

(* C6: when login or send_message raises an SMTP error, the worker returns *)
(* an outcome with success = False for that event, as it does on timeout. *)
C6_ErrorIsReturned ==
    \A f \in faults :
        (f.outcome = "error" /\ f.step \in {"login", "send_message"}) =>
            \E x \in Outcomes : x.event = f.event /\ x.success = FALSE

(* C7: no send_mail call ends with an exception leaving the handler        *)
(* because the account is unknown or the delegated command cannot start.  *)
C7_NoFaultLeavesDispatcher ==
    \A r \in Handled : calls[r].raised \notin {"IndexError", "OSError"}

(* C8: a call that ran the delegated command logged something after the   *)
(* command ended: its last log line is not the one written before the     *)
(* command was started.                                                   *)
C8_DelegateResultLogged ==
    \A r \in Delegated :
        \A e \in LoggedBy(r) :
            e.lines[Len(e.lines)] # "Would now task sendmail to send the mail"

(* C9: a send_mail event waiting for its handler can always be handled,   *)
(* whatever the pool threads are doing: the call never waits for a thread *)
(* to start, progress or finish.                                          *)
C9_DispatchNeverWaits ==
    Len(calls) < Len(events) =>
        ENABLED (\E outcome \in ProcOutcomes : send_mail(outcome))

(* both threads run a session while the third task waits in the queue *)
C9_Witness ==
    /\ \A w \in 1..Workers : worker[w].pc # "idle"
    /\ pool # <<>>
    /\ Len(calls) = 3
    /\ calls[3].raised = "none"
    /\ Head(pool).event = 3

(* C10: a call with selector 'default' resolves the account named by the  *)
(* default_account in force at the call, any other selector is used as it *)
(* is, and the task handed to the pool carries the account of that name.  *)
C10_DefaultResolves ==
    [][(Len(calls') = Len(calls) + 1 /\ Len(calls) < Len(events)) =>
        LET r == Len(calls) + 1
            want == IF events[r].account = "default" THEN config.default_account
                    ELSE events[r].account
        IN  /\ calls'[r].account_name = want
            /\ pool' # pool => pool'[Len(pool')].config.name = want]_vars

(* after default_account was changed, a 'default' request went to the     *)
(* newly named account                                                    *)
C10_Witness ==
    \E r \in Handled :
        /\ events[r].account = "default"
        /\ calls[r].raised = "none"
        /\ calls[r].account_name = config.default_account
        /\ config.default_account # DefaultConfig.default_account
        /\ reconfs > 0

-----------------------------------------------------------------------------
(* the tasks and results of event r that exist: waiting, running, awaiting *)
(* task_success, reported, or ended with an exception                      *)
TaskCount(r) ==
    Len(SelectSeq(pool, LAMBDA t : t.event = r))
        + Cardinality({w \in 1..Workers : worker[w].pc # "idle" /\ worker[w].event = r})
        + Len(SelectSeq(completions, LAMBDA x : x.event = r))
        + ReportsOf(r)
        + Cardinality({f \in failures : f.event = r})

(* the tasks whose arguments are still in the state: waiting or running *)
LiveTasks ==
    {pool[i] : i \in 1..Len(pool)}
        \cup {[config |-> worker[w].config, mail |-> worker[w].mail,
               event |-> worker[w].event] :
                    w \in {v \in 1..Workers : worker[v].pc # "idle"}}

(* C11: a call that returned with mail_send true and without running the  *)
(* delegated command (its account has use_sendmail false) has exactly one *)
(* worker task, and that task's message has the event's subject, text and *)
(* to_address and a From rendered from the task account's mail_from with  *)
(* that account's server and the system hostname.                         *)
C11_OneTaskWithTheMessage ==
    /\ \A r \in Handled :
          (calls[r].mail_send = TRUE /\ calls[r].raised = "none" /\ r \notin Delegated)
              => TaskCount(r) = 1
    /\ \A t \in LiveTasks :
          /\ t.config.use_sendmail = FALSE
          /\ t.config.name = calls[t.event].account_name
          /\ t.mail.Subject = events[t.event].subject
          /\ t.mail.text = events[t.event].text
          /\ t.mail.To = events[t.event].to_address
          /\ t.mail.From = render(t.config.mail_from,
                                  [server |-> t.config.server, hostname |-> hostname])

(* the canned test mail, resolved through 'default' to the account "anon", *)
(* is the one task of its event and is being sent                         *)
C11_Witness ==
    \E w \in 1..Workers :
        /\ worker[w].pc = "send_message"
        /\ events[worker[w].event] = TestMail
        /\ worker[w].config.name = "anon"
        /\ worker[w].mail.To = "root@localhost"
        /\ worker[w].mail.From = "bot@localhost"
        /\ TaskCount(worker[w].event) = 1

(* C12: no request is attempted twice: for every send_mail event there is *)
(* at most one backend invocation, the delegated command or one worker    *)
(* task, also after its failure has been reported.                        *)
C12_AtMostOneAttempt ==
    \A r \in 1..Len(events) :
        TaskCount(r) + Len(SelectSeq(procs, LAMBDA p : p.event = r)) <= 1

(* a failed outcome has been reported and nothing of the request is left *)
C12_Witness ==
    \E x \in BagToSet(handled) :
        /\ x.success = FALSE
        /\ x.event \notin InFlight
        /\ TaskCount(x.event) = 1

-----------------------------------------------------------------------------
(* The output a template stands for: the server and hostname tags replaced *)
(* by their values, literal text copied, and every other tag either kept   *)
(* as it is written (keep) or dropped                                      *)
RECURSIVE Substituted(_, _, _, _)
Substituted(template, server, host, keep) ==
    IF template = <<>> THEN ""
    ELSE LET tok == Head(template)
             out == IF tok = "{{server}}" THEN server
                    ELSE IF tok = "{{hostname}}" THEN host
                    ELSE IF tok = "{{nick}}" /\ ~keep THEN ""
                    ELSE tok
         IN  out \o Substituted(Tail(template), server, host, keep)

(* C13 as stated: the From header of every task's message is its account's *)
(* template with server and hostname substituted and any other placeholder *)
(* left in the output as literal text.                                     *)
C13_UnknownTagKeptLiteral ==
    \A t \in LiveTasks :
        t.mail.From = Substituted(t.config.mail_from, t.config.server, hostname, TRUE)

(* C13 as amended: the From header of every task's message is its account's *)
(* template with server and hostname substituted and any other placeholder  *)
(* rendered as the empty string.                                            *)
C13_UnknownTagRendersEmpty ==
    \A t \in LiveTasks :
        t.mail.From = Substituted(t.config.mail_from, t.config.server, hostname, FALSE)

(* a message rendered from the template {{hostname}}@{{server}}{{nick}} *)
C13_Witness ==
    \E t \in LiveTasks :
        /\ t.config.mail_from = <<"{{hostname}}", "@", "{{server}}", "{{nick}}">>
        /\ t.mail.From = "isomerhost@mail.example.org"

-----------------------------------------------------------------------------
(* the smtplib calls a session on account cfg makes, in order *)
SessionPlan(cfg) ==
    <<IF "ssl" \in DOMAIN cfg /\ cfg.ssl = FALSE THEN "SMTP" ELSE "SMTP_SSL">>
        \o (IF cfg.tls THEN <<"starttls">> ELSE <<>>)
        \o (IF cfg.username # "" THEN <<"login">> ELSE <<>>)
        \o <<"send_message", "quit">>

(* C14: the calls a running session has made are an initial part of       *)
(* connect, starttls (only with tls set), login (only with a username),   *)
(* send_message, quit, and the call it is in is the next one of that      *)
(* order: no upgrade after the login, no submission before either.        *)
C14_SessionOrder ==
    \A w \in 1..Workers :
        worker[w].pc # "idle" =>
            LET plan == SessionPlan(worker[w].config)
                done == worker[w].steps
            IN  /\ Len(done) < Len(plan)
                /\ done = SubSeq(plan, 1, Len(done))
                /\ \/ worker[w].pc = "connect" /\ Len(done) = 1
                   \/ worker[w].pc = plan[Len(done) + 1]

(* a session with upgrade and login has submitted the message and is in quit *)
C14_Witness ==
    \E w \in 1..Workers :
        /\ worker[w].pc = "quit"
        /\ worker[w].steps = <<"SMTP", "starttls", "login", "send_message">>

-----------------------------------------------------------------------------
(* the events whose SMTP session is executing *)
Running == {r \in 1..Len(events) : \E w \in DOMAIN worker :
                                       worker[w].pc # "idle" /\ worker[w].event = r}

(* the events whose task was submitted and has not ended yet *)
Unfinished ==
    {r \in Submitted : /\ \A x \in Outcomes : x.event # r
                       /\ \A f \in failures : f.event # r}

(* C15: never more than two SMTP sessions execute at once; a submitted    *)
(* task that is not executing and has not ended sits in the pool's queue, *)
(* so with more than two unfinished tasks the queue is not empty.         *)
C15_AtMostTwoSessions ==
    /\ Cardinality(Running) <= 2
    /\ \A r \in Unfinished \ Running : \E i \in 1..Len(pool) : pool[i].event = r
    /\ Cardinality(Unfinished) > 2 => pool # <<>>

(* two sessions execute, one of them already in quit, and the third task  *)
(* waits in the queue                                                     *)
C15_Witness ==
    /\ Cardinality(Running) = 2
    /\ \E w \in DOMAIN worker : worker[w].pc = "quit"
    /\ Len(pool) = 1
    /\ Cardinality(Unfinished) = 3

-----------------------------------------------------------------------------
(* The component started on the stored configuration with every field,   *)
(* which is then edited while requests are dispatched and sent            *)

NextReload ==
    \/ \E cfg \in Configs : reconfs < MaxReconfs /\ Reconfigure(cfg)
    \/ \E event \in SendMailEvents : Len(events) < MaxEvents /\ FireSendMail(event)
    \/ \E outcome \in ProcOutcomes : send_mail(outcome)
    \/ \E w \in 1..Workers : WorkerStart(w)
    \/ \E w \in 1..Workers, o \in StepOutcomes : send_mail_worker(w, o)
    \/ task_success

SpecReload == InitPool /\ [][NextReload]_vars

-----------------------------------------------------------------------------
-----------------------------------------------------------------------------
(* the lines of a session log *)
Lines(l) == {l[i] : i \in 1..Len(l)}

(* C17: every delivery outcome names an event whose call submitted a task *)
(* (gate open, no fault, command not run), it is the only outcome of that *)
(* event, and its log is the log of a session on the account that call    *)
(* resolved: outcomes of concurrent requests are not swapped or merged.   *)
C17_OutcomeNamesItsRequest ==
    \A x \in Outcomes :
        /\ x.event \in Handled
        /\ calls[x.event].raised = "none"
        /\ calls[x.event].mail_send = TRUE
        /\ x.event \notin Delegated
        /\ \A y \in Outcomes : y.event = x.event => y = x
        /\ "Starting TLS" \in Lines(x.log) => calls[x.event].account_name = "smtp"
        /\ "No username, trying anonymous access" \in Lines(x.log)
                => calls[x.event].account_name = "anon"
        /\ x.success = TRUE =>
                ("Starting TLS" \in Lines(x.log)
                    <=> calls[x.event].account_name = "smtp")

(* the outcomes of two requests on different accounts wait to be reported *)
(* in the reverse order of their dispatch                                 *)
C17_Witness ==
    /\ Len(completions) = 2
    /\ completions[1].event = 2
    /\ completions[2].event = 1
    /\ calls[1].account_name # calls[2].account_name
    /\ completions[1].success = TRUE
    /\ completions[2].success = TRUE

-----------------------------------------------------------------------------
(* C18: every run of the delegated command gets the binary path followed  *)
(* by the tokens of the argument string, none of which is the empty       *)
(* string, whatever spaces the string has.                                *)
C18_NoEmptyArgument ==
    \A i \in 1..Len(procs) :
        /\ procs[i].args # <<>>
        /\ procs[i].args[1] = RelayAccount.sendmail_binary
        /\ \A k \in 1..Len(procs[i].args) : procs[i].args[k] # ""

-----------------------------------------------------------------------------
(* C19: an outcome with success = True exists only for a session none of  *)
(* whose calls timed out or failed, and its log ends with the server      *)
(* response; a timeout of quit gives an outcome with success = False      *)
(* whose log has 'Sending Mail' (send_message had returned) and no server *)
(* response.                                                              *)
C19_SuccessOnlyAfterQuit ==
    /\ \A x \in Outcomes :
            x.success = TRUE =>
                /\ \A f \in faults : f.event # x.event
                /\ x.log # <<>>
                /\ x.log[Len(x.log)] = "Server response:{}"
    /\ \A f \in faults :
            (f.step = "quit" /\ f.outcome = "timeout") =>
                \E x \in Outcomes :
                    /\ x.event = f.event
                    /\ x.success = FALSE
                    /\ "Sending Mail" \in Lines(x.log)
                    /\ "Server response:{}" \notin Lines(x.log)

(* the failed outcome of a session whose quit timed out was reported *)
C19_Witness ==
    \E x \in BagToSet(handled) :
        /\ x.success = FALSE
        /\ \E f \in faults : f.event = x.event /\ f.step = "quit" /\ f.outcome = "timeout"
        /\ "Sending Mail" \in Lines(x.log)

-----------------------------------------------------------------------------
(* C20: a call that passes the send gate with the account 'localhost' of  *)
(* the built-in configuration (name, server, port, ssl and mail_from      *)
(* only) ends without fault, runs no command and submits a task, and no   *)
(* KeyError ends that task's session.                                     *)
C20_OptionalFieldsDefaulted ==
    \A r \in Handled :
        (/\ calls[r].account_name = DefaultAccount.name
         /\ calls[r].mail_send = TRUE
         /\ calls[r].raised # "IndexError") =>
            /\ calls[r].raised = "none"
            /\ r \notin Delegated
            /\ r \in Submitted
            /\ \A f \in failures : f.event = r => f.error # "KeyError"

-----------------------------------------------------------------------------
(* the positions in the registry of cfg of the accounts named exactly name *)
Named(cfg, name) == {i \in 1..Len(cfg.accounts) : cfg.accounts[i].name = name}

(* the first of them *)
FirstNamed(cfg, name) ==
    cfg.accounts[CHOOSE i \in Named(cfg, name) : \A j \in Named(cfg, name) : i <= j]

(* C21: a send_mail call whose account name is in the registry uses the   *)
(* first account of exactly that name, in registry order, and no other:   *)
(* the task it submits holds that account, its message has that account's *)
(* sender, and it runs the delegated command only if that account says so *)
(* and with that account's binary.                                        *)
C21_FirstOfTheNameIsUsed ==
    [][Len(calls') > Len(calls) =>
          LET r == Len(calls')
              name == account_name(events[r], config)
          IN  Named(config, name) # {} =>
                LET first == FirstNamed(config, name)
                IN  /\ first.name = name
                    /\ calls'[r].account_name = name
                    /\ \A t \in LiveTasks' :
                          t.event = r =>
                              /\ t.config = first
                              /\ t.mail = mime_mail(events[r], first)
                    /\ \A i \in 1..Len(procs') :
                          procs'[i].event = r =>
                              /\ "use_sendmail" \in DOMAIN first
                              /\ first.use_sendmail = TRUE
                              /\ procs'[i].args[1] = first.sendmail_binary
                              /\ procs'[i].stdin = mime_mail(events[r], first)]_vars

(* a task waits in the pool with the first of two accounts of its name,   *)
(* both of which the registry in force holds                              *)
C21_Witness ==
    \E k \in 1..Len(pool) :
        /\ Cardinality(Named(config, pool[k].config.name)) = 2
        /\ pool[k].config = FirstNamed(config, pool[k].config.name)
        /\ pool[k].config.server = "mail.example.org"
        /\ ShadowAccount \in {config.accounts[i] : i \in 1..Len(config.accounts)}

====
